---------------------------- MODULE Spec2Model ----------------------------
(***************************************************************************)
(* Model of the adaptive retrieval pipeline of the Dynamic RAG platform:   *)
(* the strategy router and relevance grader (utils/retriever_agent.py),    *)
(* the chat turn of views/chat_page.py and the interactions table of       *)
(* utils/database.py.                                                      *)
(*                                                                         *)
(* Text is a sequence of one-character strings, so that the URL pattern of *)
(* the router is matched character by character as re.findall does.        *)
(***************************************************************************)
EXTENDS Integers, Sequences, FiniteSets, TLC

(***************************************************************************)
(* Bounds of the model.                                                    *)
(***************************************************************************)
\* queries of the router are concatenations of at most MaxSegs segments
MaxSegs == 4
\* length of the chunk sequences handed to grade_documents on its own
MaxDocs == 2
\* number of chat turns submitted in one behaviour
MaxTurns == 2
\* number of file uploads in one behaviour
MaxUploads == 1
\* seconds the database clock may advance
MaxClock == 1
\* number of log_interaction calls made on the table on its own
MaxLogs == 2
\* session ids the sidebar generates in one behaviour
MaxFresh == 2

Min(a, b) == IF a < b THEN a ELSE b

(***************************************************************************)
(* RetrievalStrategy (utils/constants.py is not part of the sources; the   *)
(* four values are those of the specification and of the router's prompt). *)
(***************************************************************************)
DIRECT_LLM == "Direct LLM"
VECTOR_BASED == "Vector-Based"
HYBRID == "Hybrid"
WEB_SEARCH == "Web Search"
RetrievalStrategy == {DIRECT_LLM, VECTOR_BASED, HYBRID, WEB_SEARCH}

(***************************************************************************)
(* Characters and the URL pattern of get_retriever_decision:               *)
(*     https?://(?:[-\w.]|(?:%[\da-fA-F]{2}))+                             *)
(***************************************************************************)
\* \w of the alphabet in use: letters, digits, underscore
WordChars == {"h", "t", "p", "s", "H", "x", "4", "_"}
\* [\da-fA-F] of the alphabet in use
HexChars == {"4"}

\* one character of the class [-\w.]
IsHostChar(c) == c \in WordChars \cup {"-", "."}

At(s, i) == IF i >= 1 /\ i <= Len(s) THEN s[i] ELSE ""

\* the literal lit occurs in s at position i
LitAt(s, i, lit) == \A k \in 1..Len(lit) : At(s, i + k - 1) = lit[k]

RECURSIVE HostEnd(_, _)
\* greedy (?:[-\w.]|(?:%[\da-fA-F]{2}))* from position i: first index not consumed
HostEnd(s, i) ==
    IF IsHostChar(At(s, i)) THEN HostEnd(s, i + 1)
    ELSE IF At(s, i) = "%" /\ At(s, i + 1) \in HexChars /\ At(s, i + 2) \in HexChars
         THEN HostEnd(s, i + 3)
         ELSE i

\* the pattern matched at position i: first index after the match, 0 when none
MatchAt(s, i) ==
    IF ~LitAt(s, i, <<"h", "t", "t", "p">>) THEN 0
    ELSE LET j == IF At(s, i + 4) = "s" THEN i + 5 ELSE i + 4
         IN  IF ~LitAt(s, j, <<":", "/", "/">>) THEN 0
             ELSE LET e == HostEnd(s, j + 3)
                  IN  IF e > j + 3 THEN e ELSE 0

RECURSIVE FindAllFrom(_, _)
\* re.findall: non-overlapping matches, scanning left to right
FindAllFrom(s, i) ==
    IF i > Len(s) THEN <<>>
    ELSE LET e == MatchAt(s, i)
         IN  IF e > 0 THEN <<SubSeq(s, i, e - 1)>> \o FindAllFrom(s, e)
             ELSE FindAllFrom(s, i + 1)

\* urls = re.findall(url_pattern, user_query)
FindUrls(s) == FindAllFrom(s, 1)

(***************************************************************************)
(* Queries.                                                                *)
(***************************************************************************)
Segments ==
    { <<"h", "t", "t", "p">>, <<"H", "t", "t", "p">>, <<"s">>, <<":", "/", "/">>,
      <<"x">>, <<"/">>, <<" ">>, <<"%", "4">>, <<"4">> }

RECURSIVE Flatten(_)
Flatten(ss) == IF ss = <<>> THEN <<>> ELSE Head(ss) \o Flatten(Tail(ss))

SegSeqs(n) == UNION { [1..k -> Segments] : k \in 0..n }

\* every text the router is tried on
RouterQueries == { Flatten(ss) : ss \in SegSeqs(MaxSegs) }

\* the queries typed into the chat
QPlain == <<"x">>
QUrl == <<"h", "t", "t", "p", ":", "/", "/", "x", "/", "x">>
ChatQueries == {QPlain, QUrl}


(***************************************************************************)
(* State.                                                                  *)
(***************************************************************************)
VARIABLES
    \* call frame of get_retriever_decision
    rpc,            \* "idle", "start", "loop", "returned"
    rq,             \* user_query
    rkey,           \* api_key is truthy
    attempt,        \* loop variable of the retry loop
    calls,          \* chain.invoke calls made by this call of the router
    last_error,     \* last_error ("" for None)
    decision,       \* the returned dict
    raw_strategy,   \* strategy field of the dict chain.invoke returned ("": none yet)
    errs,           \* the exceptions raised inside this call, in order
    \* call frame of grade_documents
    gpc,            \* "idle", "start", "returned"
    gdocs,          \* documents
    gresult,        \* the returned grade
    gcalls,         \* chain.invoke calls made by this call of the grader
    gsent,          \* the document text sent to the grading service (<<>>: none)
    gfailed,        \* the except branch of the grader was taken
    \* the chat turn of render_page
    pc,             \* "idle", "route", "grade", "web", "generate", "log"
    user_prompt,
    agent_decision,
    docs,
    grade,
    context_text,
    sources,
    final_strategy,
    response_text,
    st_error,       \* text shown by st.error in the turn (<<>>: none)
    outcome,        \* how the last turn ended
    router_runs,    \* calls of get_retriever_decision in the turn
    grader_runs,    \* calls of grade_documents in the turn
    web_runs,       \* calls of run_tavily_search in the turn
    gen_runs,       \* calls of ask_groq in the turn
    rows_before,    \* size of the interactions table when the turn began
    web,            \* what run_tavily_search returned in the turn (NoWeb: not called)
    store_before,   \* the document store when the turn began
    mem_before,     \* the memory cache when the turn began
    \* session state and stores
    has_key,        \* st.session_state GROQ_API_KEY is truthy
    chat_messages,
    memory,         \* the memory cache: recorded (query, answer) pairs
    vector_store,   \* chunks of the document store; <<>> while it is None
    interactions,   \* rows of the interactions table
    last_id,        \* AUTOINCREMENT: largest id ever assigned
    now,            \* CURRENT_TIMESTAMP, in seconds
    current_session_id,
    turns,
    uploads,
    issued,         \* the ids log_interaction returned, in the order of the calls
    db_op,          \* the last call made on the interactions table on its own
    fresh           \* session ids generated by the sidebar so far

routerVars == <<rpc, rq, rkey, attempt, calls, last_error, decision, raw_strategy, errs>>
graderVars == <<gpc, gdocs, gresult, gcalls, gsent, gfailed>>
turnVars == <<pc, user_prompt, agent_decision, docs, grade, context_text, sources, final_strategy,
              response_text, st_error, outcome, router_runs, grader_runs, web_runs,
              gen_runs, rows_before, web, store_before, mem_before>>
storeVars == <<has_key, chat_messages, memory, vector_store, interactions,
               last_id, now, current_session_id, turns, uploads, issued, db_op,
               fresh>>
vars == <<routerVars, graderVars, turnVars, storeVars>>

(***************************************************************************)
(* get_retriever_decision (utils/retriever_agent.py).                      *)
(***************************************************************************)
\* one attempt more than the code allows
max_retries_plus_one == 3 + 1

\* max_retries = 3
max_retries == 3

\* errors the classification service, the parser or the client may raise
Errors == {"transport error", "parse error"}

\* strategy fields the classification service may return; NoField: no such key
NoField == "<missing>"
ServiceStrategies == RetrievalStrategy \cup {"Bogus", NoField}

\* the refined_query a classifier writes
LlmRefined == <<"r">>

Reasoning(kind, err, urls) == [kind |-> kind, err |-> err, urls |-> urls]

NoDecision ==
    [strategy |-> "", reasoning |-> Reasoning("", "", <<>>),
     refined_query |-> <<>>, has_urls |-> FALSE, urls |-> <<>>]

\* fallback_decision as initialised
FallbackDecision(q) ==
    [strategy |-> VECTOR_BASED, reasoning |-> Reasoning("Default fallback.", "", <<>>),
     refined_query |-> q, has_urls |-> FALSE, urls |-> <<>>]

\* the dict returned when the query holds URLs
UrlDecision(q, urls) ==
    [strategy |-> WEB_SEARCH, reasoning |-> Reasoning("User query contains specific URLs", "", urls),
     refined_query |-> q, has_urls |-> TRUE, urls |-> urls]

NoKeyDirect(q) ==
    [FallbackDecision(q) EXCEPT !.strategy = DIRECT_LLM,
                                !.reasoning = Reasoning("No API key provided.", "", <<>>)]

\* if not api_key: fallback_decision["reasoning"] = "No API key provided."
NoKeyDecision(q) ==
    [FallbackDecision(q) EXCEPT !.reasoning = Reasoning("No API key provided.", "", <<>>)]

KeepStrategy(s) == s

\* a strategy outside the enumeration becomes Vector-Based
ValidateStrategy(s) == IF s \notin RetrievalStrategy THEN VECTOR_BASED ELSE s

\* the parsed dict of a successful chain.invoke, after validation
ServiceDecision(s) ==
    [strategy |-> ValidateStrategy(s), reasoning |-> Reasoning("classifier", "", <<>>),
     refined_query |-> LlmRefined, has_urls |-> FALSE, urls |-> <<>>]

\* fallback after the retry loop
RetriesFailedDecision(q, err) ==
    [FallbackDecision(q) EXCEPT !.strategy = DIRECT_LLM,
                                !.reasoning = Reasoning("Agent decision failed after attempts", err, <<>>)]

\* the outer except
InitFailedDecision(q, err) ==
    [FallbackDecision(q) EXCEPT !.strategy = DIRECT_LLM,
                                !.reasoning = Reasoning("Agent initialization failed", err, <<>>)]

\* except Exception as e (line 97): the loop's handler takes every error
InnerCatches(e) == TRUE

\* a handler that takes transport errors only
CatchesTransportOnly(e) == e = "transport error"

\* except Exception as e (line 106): the outer handler takes every error
OuterCatches(e) == TRUE

\* lines 36-76: URL check, credentials check, client and prompt set-up
RouterEnter ==
    /\ rpc = "start"
    /\ LET urls == FindUrls(rq)
       IN  IF urls # <<>>
           THEN /\ decision' = UrlDecision(rq, urls)
                /\ rpc' = "returned"
                /\ UNCHANGED errs
           ELSE IF ~rkey
           THEN /\ decision' = NoKeyDecision(rq)
                /\ rpc' = "returned"
                /\ UNCHANGED errs
           ELSE \/ /\ rpc' = "loop"
                   /\ UNCHANGED <<decision, errs>>
                \/ \E e \in Errors :
                      /\ errs' = Append(errs, e)
                      /\ IF OuterCatches(e)
                         THEN /\ decision' = InitFailedDecision(rq, e)
                              /\ rpc' = "returned"
                         ELSE /\ rpc' = "raised"
                              /\ UNCHANGED decision
    /\ UNCHANGED <<rq, rkey, attempt, calls, last_error, raw_strategy>>
    /\ UNCHANGED <<graderVars, turnVars, storeVars>>

\* one iteration of the retry loop: chain.invoke and its validation
RouterAttempt ==
    /\ rpc = "loop"
    /\ attempt < max_retries
    /\ calls' = calls + 1
    /\ \/ \E s \in ServiceStrategies :
             /\ raw_strategy' = s
             /\ decision' = ServiceDecision(s)
             /\ rpc' = "returned"
             /\ UNCHANGED <<attempt, last_error, errs>>
       \/ \E e \in Errors :
             /\ errs' = Append(errs, e)
             /\ IF InnerCatches(e)
                THEN /\ last_error' = e
                     /\ attempt' = attempt + 1
                     /\ UNCHANGED <<decision, rpc>>
                ELSE IF OuterCatches(e)
                THEN /\ decision' = InitFailedDecision(rq, e)
                     /\ rpc' = "returned"
                     /\ UNCHANGED <<last_error, attempt>>
                ELSE /\ rpc' = "raised"
                     /\ UNCHANGED <<decision, last_error, attempt>>
             /\ UNCHANGED raw_strategy
    /\ UNCHANGED <<rq, rkey>>
    /\ UNCHANGED <<graderVars, turnVars, storeVars>>

\* lines 101-104: the loop ran out
RouterExhausted ==
    /\ rpc = "loop"
    /\ attempt >= max_retries
    /\ decision' = RetriesFailedDecision(rq, last_error)
    /\ rpc' = "returned"
    /\ UNCHANGED <<rq, rkey, attempt, calls, last_error, raw_strategy, errs>>
    /\ UNCHANGED <<graderVars, turnVars, storeVars>>

RouterStep == RouterEnter \/ RouterAttempt \/ RouterExhausted

(***************************************************************************)
(* Chunks of the document store.                                           *)
(***************************************************************************)
Doc(content, meta) == [page_content |-> content, metadata |-> meta]

U1 == Doc(<<"u1">>, [source |-> "f1", page |-> "1"])
U2 == Doc(<<"u2">>, [source |-> "f1", page |-> "2"])
UploadChunks == {U1, U2}

DocSeqs(n) == UNION { [1..k -> UploadChunks] : k \in 0..n }

(***************************************************************************)
(* grade_documents (utils/retriever_agent.py).                             *)
(***************************************************************************)
\* what the grading chain may do: fail while it is built, fail in invoke,
\* return a dict with some score (NoField: no "score" key), return no dict
GraderOutcomes ==
    {[kind |-> "init_error", score |-> ""], [kind |-> "invoke_error", score |-> ""],
     [kind |-> "nondict", score |-> ""]}
    \cup {[kind |-> "dict", score |-> sc] : sc \in {"yes", "no", "maybe", NoField}}

GradeRet(g, n, sent, failed) == [grade |-> g, calls |-> n, sent |-> sent, failed |-> failed]

\* no guard for the empty sequence: documents[0] raises inside the try
GradeNoEmptyGuard(documents, o) ==
    IF documents = <<>> \/ o.kind = "init_error" THEN GradeRet("yes", 0, <<>>, TRUE)
    ELSE IF o.kind = "dict"
         THEN GradeRet(IF o.score = NoField THEN "no" ELSE o.score, 1,
                       documents[1].page_content, FALSE)
         ELSE GradeRet("yes", 1, documents[1].page_content, TRUE)

\* the except branch returns "no"
GradeFailClosed(documents, o) ==
    IF documents = <<>> THEN GradeRet("no", 0, <<>>, FALSE)
    ELSE IF o.kind = "init_error" THEN GradeRet("no", 0, <<>>, TRUE)
    ELSE IF o.kind = "dict"
         THEN GradeRet(IF o.score = NoField THEN "no" ELSE o.score, 1,
                       documents[1].page_content, FALSE)
         ELSE GradeRet("no", 1, documents[1].page_content, TRUE)

\* the last chunk is sent to the grading service instead of the first
GradeLastChunk(documents, o) ==
    IF documents = <<>> THEN GradeRet("no", 0, <<>>, FALSE)
    ELSE IF o.kind = "init_error" THEN GradeRet("yes", 0, <<>>, TRUE)
    ELSE IF o.kind = "dict"
         THEN GradeRet(IF o.score = NoField THEN "no" ELSE o.score, 1,
                       documents[Len(documents)].page_content, FALSE)
         ELSE GradeRet("yes", 1, documents[Len(documents)].page_content, TRUE)

\* grade_documents(user_query, documents, api_key) when the chain behaves as o
GradeDocuments(documents, o) ==
    \* if not documents: return "no"
    IF documents = <<>> THEN GradeRet("no", 0, <<>>, FALSE)
    \* the client or the prompt fails: except returns "yes"
    ELSE IF o.kind = "init_error" THEN GradeRet("yes", 0, <<>>, TRUE)
    ELSE IF o.kind = "dict"
         \* result.get("score", "no")
         THEN GradeRet(IF o.score = NoField THEN "no" ELSE o.score, 1,
                       documents[1].page_content, FALSE)
         \* invoke raised, or result has no get: except returns "yes"
         ELSE GradeRet("yes", 1, documents[1].page_content, TRUE)

GraderRun ==
    /\ gpc = "start"
    /\ \E o \in GraderOutcomes :
          LET r == GradeDocuments(gdocs, o)
          IN  /\ gresult' = r.grade
              /\ gcalls' = r.calls
              /\ gsent' = r.sent
              /\ gfailed' = r.failed
    /\ gpc' = "returned"
    /\ UNCHANGED gdocs
    /\ UNCHANGED <<routerVars, turnVars, storeVars>>

(***************************************************************************)
(* Collaborators of the chat turn whose code is not among the sources      *)
(* (VectorStoreManager, run_tavily_search, ask_groq), modelled from their  *)
(* contracts in the specification.                                         *)
(***************************************************************************)
NoneVal == "<None>"

\* Python truthiness of an optional text
Truthy(x) == x # NoneVal /\ x # ""

\* lookup(query): the answer of some entry recorded for this very query
CheckMemory(mem, q) ==
    IF \E i \in 1..Len(mem) : mem[i].query = q
    THEN { mem[i].answer : i \in { j \in 1..Len(mem) : mem[j].query = q } }
    ELSE {NoneVal}

\* record(query, answer)
AddToMemory(mem, q, a) == Append(mem, [query |-> q, answer |-> a])

\* similaritySearch(query, k): at most k chunks of the store, best first
SimilaritySearch(store, q, k) == SubSeq(store, 1, Min(k, Len(store)))

\* add(chunks)
AddDocuments(store, chunks) == store \o chunks

\* WebResult
W1 == [title |-> "t1", url |-> "u1", content |-> "c1"]
W2 == [title |-> "t2", url |-> "u2", content |-> "c2"]

\* search(query, depth, result_count) -> (context_text, results); an error is
\* a context text that starts with "Error"
WebOutcomes ==
    { [ctx |-> <<"Error", "x">>, results |-> <<>>],
      [ctx |-> <<"x">>, results |-> <<>>],
      [ctx |-> <<"x">>, results |-> <<W1, W2>>],
      [ctx |-> <<"x", "Error">>, results |-> <<W1>>] }

\* run_tavily_search was not called
NoWeb == [ctx |-> <<"<not called>">>, results |-> <<>>]

\* the labels an answer may be recorded with
AnswerLabels == {DIRECT_LLM, VECTOR_BASED, WEB_SEARCH}

\* texts the generation service may return
Answers == {"", "a"}

(***************************************************************************)
(* The interactions table (utils/database.py).                             *)
(***************************************************************************)
\* no call was made on the table on its own
NoOp == [kind |-> "none"]

\* sources=[s.metadata if hasattr(s, 'metadata') else s for s in sources]
LoggedSources(srcs) ==
    [i \in 1..Len(srcs) |->
        IF "metadata" \in DOMAIN srcs[i] THEN srcs[i].metadata ELSE srcs[i]]

\* the row INSERT writes: id from AUTOINCREMENT, timestamp and rating defaults
NewRow(id, sid, ts, prompt, ctx, resp, src, srcs) ==
    [id |-> id, session_id |-> sid, timestamp |-> ts, user_prompt |-> prompt,
     web_context |-> ctx, llm_response |-> resp, rating |-> 0, source |-> src,
     sources |-> srcs]

Max(S) == CHOOSE x \in S : \A y \in S : x >= y

\* an id one more than the largest still in the table
NextRowid(rows, seq) ==
    IF rows = <<>> THEN 1 ELSE Max({rows[i].id : i \in 1..Len(rows)}) + 1

\* id INTEGER PRIMARY KEY AUTOINCREMENT: one more than the largest id the
\* table ever held (seq), whatever rows are left
NextId(rows, seq) == seq + 1

\* UPDATE without its WHERE clause
UpdateEveryRow(rows, id, r) == [i \in 1..Len(rows) |-> [rows[i] EXCEPT !.rating = r]]

\* an UPDATE that is never committed
UpdateNotCommitted(rows, id, r) == rows

\* UPDATE interactions SET rating = ? WHERE id = ?
update_interaction_rating(rows, id, r) ==
    [i \in 1..Len(rows) |->
        IF rows[i].id = id THEN [rows[i] EXCEPT !.rating = r] ELSE rows[i]]

\* WHERE session_id = ?
RowsOfSession(rows, s) ==
    LET Mine(row) == row.session_id = s
    IN  SelectSeq(rows, Mine)

\* DELETE without its WHERE clause
DeleteEverySession(rows, s) == <<>>

\* DELETE FROM interactions WHERE session_id = ?
delete_session(rows, s) ==
    LET Kept(row) == row.session_id # s
    IN  SelectSeq(rows, Kept)

\* the orders in which a SELECT may return rs under ORDER BY timestamp DESC:
\* later timestamps first, rows of equal timestamp in any order
OrderByTimestampDesc(rs) ==
    LET n == Len(rs)
        perms == { p \in [1..n -> 1..n] : \A i, j \in 1..n : i # j => p[i] # p[j] }
    IN  { [i \in 1..n |-> rs[p[i]]] :
            p \in { q \in perms : \A i, j \in 1..n :
                        i < j => rs[q[i]].timestamp >= rs[q[j]].timestamp } }

Reversed(seq) == [i \in 1..Len(seq) |-> seq[Len(seq) + 1 - i]]

RECURSIVE HistoryMessages(_)
\* lines 91-100: a user message and an assistant message for each row
HistoryMessages(rows) ==
    IF rows = <<>> THEN <<>>
    ELSE << [role |-> "user", content |-> Head(rows).user_prompt],
            [role |-> "assistant", content |-> Head(rows).llm_response,
             source |-> Head(rows).source, sources |-> Head(rows).sources,
             interaction_id |-> Head(rows).id] >>
         \o HistoryMessages(Tail(rows))

\* limit: int = 50
DefaultLimit == 50

\* load_chat_history_from_db(session_id, limit): the lists it may return
load_chat_history_from_db(rows, s, limit) ==
    { HistoryMessages(Reversed(SubSeq(o, 1, Min(limit, Len(o))))) :
        o \in OrderByTimestampDesc(RowsOfSession(rows, s)) }

SessionIds(rows) == { rows[i].session_id : i \in 1..Len(rows) }

\* user_prompt is taken from any row of the group
AnyRowSummaries(rows, s) ==
    LET mine == { i \in 1..Len(rows) : rows[i].session_id = s }
        last == Max({ rows[i].timestamp : i \in mine })
    IN  { [session_id |-> s, last_active |-> last, user_prompt |-> rows[i].user_prompt] :
            i \in mine }

\* SELECT session_id, MAX(timestamp) as last_active, user_prompt ... GROUP BY
\* session_id: user_prompt is taken from a row that holds the maximum
SessionSummaries(rows, s) ==
    LET mine == { i \in 1..Len(rows) : rows[i].session_id = s }
        last == Max({ rows[i].timestamp : i \in mine })
    IN  { [session_id |-> s, last_active |-> last, user_prompt |-> rows[i].user_prompt] :
            i \in { j \in mine : rows[j].timestamp = last } }

\* get_all_sessions(): the lists it may return, ORDER BY last_active DESC
get_all_sessions(rows) ==
    LET ids == SessionIds(rows)
        n == Cardinality(ids)
        orders == { q \in [1..n -> ids] : \A i, j \in 1..n : i # j => q[i] # q[j] }
        picks == { f \in [ids -> UNION { SessionSummaries(rows, s) : s \in ids }] :
                     \A s \in ids : f[s] \in SessionSummaries(rows, s) }
    IN  { r \in { [i \in 1..n |-> f[q[i]]] : q \in orders, f \in picks } :
            \A i, j \in 1..n : i < j => r[i].last_active >= r[j].last_active }

\* ASCII case folding of LIKE, on the alphabet in use
LikeFold(c) == IF c = "A" THEN "a" ELSE c

IsSpace(c) == c = " "

RECURSIVE LStrip(_)
LStrip(q) == IF q # <<>> /\ IsSpace(Head(q)) THEN LStrip(Tail(q)) ELSE q

\* query.strip()
Strip(q) == Reversed(LStrip(Reversed(LStrip(q))))

RECURSIVE Like(_, _, _, _)
\* text LIKE pattern, pattern read from position i and text from position j:
\* % stands for any run of characters, _ for any one character
Like(pattern, i, text, j) ==
    IF i > Len(pattern) THEN j > Len(text)
    ELSE IF pattern[i] = "%"
         THEN \/ Like(pattern, i + 1, text, j)
              \/ (j <= Len(text) /\ Like(pattern, i, text, j + 1))
    ELSE IF j > Len(text) THEN FALSE
    ELSE IF pattern[i] = "_" THEN Like(pattern, i + 1, text, j + 1)
    ELSE LikeFold(pattern[i]) = LikeFold(text[j]) /\ Like(pattern, i + 1, text, j + 1)

\* f'%{query.strip()}%'
LikePattern(q) == <<"%">> \o Strip(q) \o <<"%">>

NoMatch == [kind |-> "None"]

\* find_similar_interaction(query): the values it may return. The first row
\* under ORDER BY rating DESC, timestamp DESC is one that no other row precedes.
find_similar_interaction(rows, q) ==
    LET hits == { i \in 1..Len(rows) :
                    /\ Like(LikePattern(q), 1, rows[i].user_prompt, 1)
                    /\ rows[i].rating >= 1 }
        first == { i \in hits : \A j \in hits :
                     \/ rows[i].rating > rows[j].rating
                     \/ /\ rows[i].rating = rows[j].rating
                        /\ rows[i].timestamp >= rows[j].timestamp }
    IN  IF hits = {} THEN {NoMatch}
        ELSE { [kind |-> "match", past_question |-> rows[i].user_prompt,
                past_answer |-> rows[i].llm_response] : i \in first }

(***************************************************************************)
(* The chat turn of render_page (views/chat_page.py, lines 191-343).       *)
(***************************************************************************)
UserMessage(q) == [role |-> "user", content |-> q]

MemoryMessage(a) == [role |-> "assistant", content |-> a, source |-> <<"Memory Cache">>]

AnswerMessage(a, srcs, strategy, id) ==
    [role |-> "assistant", content |-> a, source |-> <<"Groq">>, sources |-> srcs,
     retrieval_strategy |-> strategy, interaction_id |-> id]

\* context_text of a vector answer: header and one entry per retrieved chunk
DocsContext(ds) ==
    <<[kind |-> "docs header"]>> \o
    [i \in 1..Len(ds) |->
        [kind |-> "doc", source |-> ds[i].metadata.source,
         page |-> ds[i].metadata.page, content |-> ds[i].page_content]]

\* context_text of a web answer
WebContext(ctx) == <<[kind |-> "web", text |-> ctx]>>

\* the Document built from one web result
WebDoc(r) ==
    Doc(<<"Title", r.title, "URL", r.url, "Content", r.content>>,
        [source |-> r.title, url |-> r.url, page |-> "Web"])

\* a test that never finds the marker
NoErrorCheck(ctx) == FALSE

\* "Error" in web_context
HasError(ctx) == \E i \in 1..Len(ctx) : ctx[i] = "Error"

ResetRouter ==
    /\ rpc' = "idle" /\ rq' = <<>> /\ rkey' = FALSE /\ attempt' = 0
    /\ calls' = 0 /\ last_error' = "" /\ decision' = NoDecision
    /\ raw_strategy' = "" /\ errs' = <<>>

ResetGrader ==
    /\ gpc' = "idle" /\ gdocs' = <<>> /\ gresult' = "" /\ gcalls' = 0 /\ gsent' = <<>>
    /\ gfailed' = FALSE

\* lines 200-208: the cached answer is shown and st.rerun() ends the turn
MemoryHit(q, cached) ==
    /\ chat_messages' = chat_messages \o <<UserMessage(q), MemoryMessage(cached)>>
    /\ UNCHANGED <<interactions, last_id>>
    /\ outcome' = "memory"
    /\ pc' = "idle"
    /\ router_runs' = 0
    /\ UNCHANGED routerVars

\* lines 210-216: the router is called with the session's key
MemoryMiss(q) ==
    /\ chat_messages' = Append(chat_messages, UserMessage(q))
    /\ UNCHANGED <<interactions, last_id>>
    /\ outcome' = "running"
    /\ pc' = "route"
    /\ router_runs' = 1
    /\ rpc' = "start" /\ rq' = q /\ rkey' = has_key /\ attempt' = 0
    /\ calls' = 0 /\ last_error' = "" /\ decision' = NoDecision
    /\ raw_strategy' = "" /\ errs' = <<>>

\* if cached_response:
CachedHit(c) == Truthy(c)

\* lines 191-216: a prompt is submitted and the memory cache consulted
Submit ==
    /\ pc = "idle"
    /\ turns < MaxTurns
    /\ \E q \in ChatQueries : \E cached \in CheckMemory(memory, q) :
          /\ user_prompt' = q
          /\ IF CachedHit(cached) THEN MemoryHit(q, cached) ELSE MemoryMiss(q)
    /\ turns' = turns + 1
    /\ rows_before' = Len(interactions)
    /\ web' = NoWeb /\ store_before' = vector_store /\ mem_before' = memory
    /\ agent_decision' = NoDecision
    /\ docs' = <<>> /\ grade' = "" /\ context_text' = <<>> /\ sources' = <<>>
    /\ final_strategy' = "" /\ response_text' = NoneVal /\ st_error' = <<>>
    /\ grader_runs' = 0 /\ web_runs' = 0 /\ gen_runs' = 0
    /\ ResetGrader
    /\ UNCHANGED <<has_key, memory, vector_store, now, current_session_id, uploads, issued, db_op, fresh>>

\* lines 218-247: Direct LLM, or vector search and the call of the grader
AfterRoute ==
    /\ pc = "route"
    /\ rpc = "returned"
    /\ agent_decision' = decision
    /\ ResetRouter
    /\ IF decision.strategy = DIRECT_LLM
       THEN /\ final_strategy' = DIRECT_LLM
            /\ pc' = "generate"
            /\ UNCHANGED <<docs, grade, grader_runs, graderVars>>
       ELSE LET found == IF vector_store # <<>>
                         THEN SimilaritySearch(vector_store, user_prompt, 4)
                         ELSE <<>>
            IN  /\ final_strategy' = VECTOR_BASED
                /\ docs' = found
                /\ grade' = "no"
                /\ IF found # <<>>
                   THEN /\ pc' = "grade"
                        /\ grader_runs' = grader_runs + 1
                        /\ gpc' = "start" /\ gdocs' = found
                        /\ UNCHANGED <<gresult, gcalls, gsent, gfailed>>
                   ELSE /\ pc' = "decide"
                        /\ UNCHANGED <<grader_runs, graderVars>>
    /\ UNCHANGED <<user_prompt, context_text, sources, response_text, st_error,
                   outcome, router_runs, web_runs, gen_runs, rows_before,
                   web, store_before, mem_before>>
    /\ UNCHANGED storeVars

\* line 242: grade = grade_documents(...)
AfterGrade ==
    /\ pc = "grade"
    /\ gpc = "returned"
    /\ grade' = gresult
    /\ pc' = "decide"
    /\ UNCHANGED <<user_prompt, agent_decision, docs, context_text, sources, final_strategy,
                   response_text, st_error, outcome, router_runs, grader_runs,
                   web_runs, gen_runs, rows_before, web, store_before, mem_before>>
    /\ UNCHANGED <<routerVars, graderVars, storeVars>>

\* the retrieved chunks are cited and indexed once more
VectorAnswerIndexes ==
    /\ final_strategy' = VECTOR_BASED
    /\ context_text' = context_text \o DocsContext(docs)
    /\ sources' = sources \o docs
    /\ vector_store' = AddDocuments(vector_store, docs)
    /\ UNCHANGED <<st_error, web_runs, web>>

\* lines 250-258: the retrieved chunks become context and citations
VectorAnswer ==
    /\ final_strategy' = VECTOR_BASED
    /\ context_text' = context_text \o DocsContext(docs)
    /\ sources' = sources \o docs
    /\ UNCHANGED <<st_error, web_runs, web, vector_store>>

\* the web search runs but the label of the turn stays as it was
WebFallbackKeepsLabel ==
    /\ final_strategy' = final_strategy
    /\ web_runs' = web_runs + 1
    /\ \E w \in WebOutcomes :
          /\ web' = w
          /\ IF HasError(w.ctx)
             THEN /\ st_error' = w.ctx
                  /\ UNCHANGED <<context_text, sources, vector_store>>
             ELSE /\ context_text' = context_text \o WebContext(w.ctx)
                  /\ sources' = sources \o w.results
                  /\ vector_store' =
                        IF w.results # <<>>
                        THEN AddDocuments(vector_store,
                                 [i \in 1..Len(w.results) |-> WebDoc(w.results[i])])
                        ELSE vector_store
                  /\ UNCHANGED st_error

\* lines 259-292: web search; its results are cited and indexed unless the
\* context text holds "Error"
WebFallback ==
    /\ final_strategy' = WEB_SEARCH
    /\ web_runs' = web_runs + 1
    /\ \E w \in WebOutcomes :
          /\ web' = w
          /\ IF HasError(w.ctx)
             THEN /\ st_error' = w.ctx
                  /\ UNCHANGED <<context_text, sources, vector_store>>
             ELSE /\ context_text' = context_text \o WebContext(w.ctx)
                  /\ sources' = sources \o w.results
                  /\ vector_store' =
                        IF w.results # <<>>
                        THEN AddDocuments(vector_store,
                                 [i \in 1..Len(w.results) |-> WebDoc(w.results[i])])
                        ELSE vector_store
                  /\ UNCHANGED st_error

\* a routed Web Search goes to the web search whatever the grade
DecideWebWhenRouted ==
    /\ pc = "decide"
    /\ IF grade = "yes" /\ agent_decision.strategy # WEB_SEARCH THEN VectorAnswer ELSE WebFallback
    /\ pc' = "generate"
    /\ UNCHANGED <<user_prompt, agent_decision, docs, grade, response_text, outcome, router_runs,
                   grader_runs, gen_runs, rows_before, store_before, mem_before>>
    /\ UNCHANGED <<routerVars, graderVars>>
    /\ UNCHANGED <<has_key, chat_messages, memory, interactions, last_id, now,
                   current_session_id, turns, uploads, issued, db_op, fresh>>

\* lines 249-296: C. Decision: Vector vs Web
Decide ==
    /\ pc = "decide"
    /\ IF grade = "yes" THEN VectorAnswer ELSE WebFallback
    /\ pc' = "generate"
    /\ UNCHANGED <<user_prompt, agent_decision, docs, grade, response_text, outcome, router_runs,
                   grader_runs, gen_runs, rows_before, store_before, mem_before>>
    /\ UNCHANGED <<routerVars, graderVars>>
    /\ UNCHANGED <<has_key, chat_messages, memory, interactions, last_id, now,
                   current_session_id, turns, uploads, issued, db_op, fresh>>

\* lines 298-307: ask_groq returns a text, or its failure ends the run
Generate ==
    /\ pc = "generate"
    /\ gen_runs' = gen_runs + 1
    /\ \/ \E a \in Answers :
             /\ response_text' = a
             /\ pc' = "log"
             /\ UNCHANGED outcome
       \/ /\ outcome' = "generation failed"
          /\ pc' = "idle"
          /\ UNCHANGED response_text
    /\ UNCHANGED <<user_prompt, agent_decision, docs, grade, context_text, sources, final_strategy,
                   st_error, router_runs, grader_runs, web_runs, rows_before,
                   web, store_before, mem_before>>
    /\ UNCHANGED <<routerVars, graderVars, storeVars>>

\* log_interaction (utils/database.py, lines 39-51); the id it returns is last_id'
log_interaction(prompt, ctx, resp, src, srcs, sid, ts) ==
    /\ interactions' = Append(interactions,
          NewRow(NextId(interactions, last_id), sid, ts, prompt, ctx, resp, src, srcs))
    /\ last_id' = NextId(interactions, last_id)
    /\ issued' = Append(issued, last_id')
    /\ now' = ts

\* the turn ends without the INSERT
LogSkipped ==
    /\ pc = "log"
    /\ UNCHANGED <<interactions, last_id, now, issued>>
    /\ memory' = AddToMemory(memory, user_prompt, response_text)
    /\ chat_messages' = Append(chat_messages,
          AnswerMessage(response_text, sources, final_strategy, last_id))
    /\ outcome' = "answered"
    /\ pc' = "idle"
    /\ UNCHANGED <<user_prompt, agent_decision, docs, grade, context_text, sources, final_strategy,
                   response_text, st_error, router_runs, grader_runs, web_runs,
                   gen_runs, rows_before, web, store_before, mem_before>>
    /\ UNCHANGED <<routerVars, graderVars>>
    /\ UNCHANGED <<has_key, vector_store, current_session_id, turns, uploads, db_op, fresh>>

\* lines 319-343: the row is written, the pair recorded, the answer appended
LogAndFinish ==
    /\ pc = "log"
    /\ \/ /\ \E ts \in now..Min(now + 1, MaxClock) :
                log_interaction(user_prompt, context_text, response_text,
                                <<"Groq", final_strategy>>, LoggedSources(sources),
                                current_session_id, ts)
          /\ memory' = AddToMemory(memory, user_prompt, response_text)
          /\ chat_messages' = Append(chat_messages,
                AnswerMessage(response_text, sources, final_strategy, last_id'))
          /\ outcome' = "answered"
       \/ \* the INSERT raises: the run ends before the answer is appended
          /\ outcome' = "logging failed"
          /\ UNCHANGED <<interactions, last_id, now, issued, memory, chat_messages>>
    /\ pc' = "idle"
    /\ UNCHANGED <<user_prompt, agent_decision, docs, grade, context_text, sources, final_strategy,
                   response_text, st_error, router_runs, grader_runs, web_runs,
                   gen_runs, rows_before, web, store_before, mem_before>>
    /\ UNCHANGED <<routerVars, graderVars>>
    /\ UNCHANGED <<has_key, vector_store, current_session_id, turns, uploads, db_op, fresh>>

\* lines 128-151: uploaded files are chunked and indexed
Upload ==
    /\ pc = "idle"
    /\ uploads < MaxUploads
    /\ vector_store' = AddDocuments(vector_store, <<U1, U2>>)
    /\ uploads' = uploads + 1
    /\ UNCHANGED <<routerVars, graderVars, turnVars>>
    /\ UNCHANGED <<has_key, chat_messages, memory, interactions, last_id, now,
                   current_session_id, turns, issued, db_op, fresh>>

(***************************************************************************)
(* The session state of one browser session and the table: chat turns,     *)
(* the sidebar of app.py and the rating buttons, each in a run of its own. *)
(***************************************************************************)
\* the ratings the chat page writes: thumbs up and thumbs down
Ratings == {-1, 1}

\* str(uuid.uuid4()): an id no session has had
FreshIds == <<"n1", "n2", "n3", "n4">>

FreshSession == FreshIds[fresh + 1]

\* what a turn is given here: one prompt, asked again for the memory hit, and
\* one strategy label, which no button reads
UiQueries == {QPlain}

UiLabels == {VECTOR_BASED}

\* chat_page.py lines 191-343, as seen from the session state and the table:
\* a memory hit, an answer that is logged and appended, or a run that ends
\* after the user message
UiTurn ==
    /\ pc = "idle"
    /\ turns < MaxTurns
    /\ turns' = turns + 1
    /\ \E q \in UiQueries : \E cached \in CheckMemory(memory, q) :
          IF CachedHit(cached)
          THEN /\ chat_messages' = chat_messages \o <<UserMessage(q), MemoryMessage(cached)>>
               /\ UNCHANGED <<interactions, last_id, issued, now, memory>>
          ELSE \/ \E a \in Answers, label \in UiLabels,
                     ts \in now..Min(now + 1, MaxClock) :
                     /\ log_interaction(q, <<>>, a, <<"Groq", label>>, <<>>,
                                        current_session_id, ts)
                     /\ memory' = AddToMemory(memory, q, a)
                     /\ chat_messages' = chat_messages \o
                           <<UserMessage(q), AnswerMessage(a, <<>>, label, last_id')>>
               \/ /\ chat_messages' = Append(chat_messages, UserMessage(q))
                  /\ UNCHANGED <<interactions, last_id, issued, now, memory>>
    /\ UNCHANGED <<routerVars, graderVars, turnVars>>
    /\ UNCHANGED <<has_key, vector_store, current_session_id, uploads, db_op, fresh>>

\* a run started by a sidebar button: it touches no store but the table
SidebarRun ==
    /\ pc = "idle"
    /\ UNCHANGED <<routerVars, graderVars, turnVars>>
    /\ UNCHANGED <<has_key, memory, vector_store, last_id, now, turns, uploads, issued, db_op>>

\* lines 79-83: New Chat
NewChat ==
    /\ SidebarRun
    /\ fresh < MaxFresh
    /\ fresh' = fresh + 1
    /\ current_session_id' = FreshSession
    /\ chat_messages' = <<>>
    /\ UNCHANGED interactions

\* lines 99-102: the button of a listed session
SelectSession ==
    /\ SidebarRun
    /\ \E listed \in get_all_sessions(interactions) : \E k \in 1..Len(listed) :
          /\ current_session_id' = listed[k].session_id
          /\ chat_messages' \in load_chat_history_from_db(interactions, listed[k].session_id,
                                                          DefaultLimit)
    /\ UNCHANGED <<interactions, fresh>>

\* the chat is kept when the session on display is deleted
DeleteKeepsChat(s) ==
    /\ interactions' = delete_session(interactions, s)
    /\ UNCHANGED <<current_session_id, chat_messages, fresh>>

\* lines 104-110: the delete button of session s
DeleteButton(s) ==
    /\ interactions' = delete_session(interactions, s)
    /\ IF s = current_session_id
       THEN /\ fresh < MaxFresh
            /\ fresh' = fresh + 1
            /\ current_session_id' = FreshSession
            /\ chat_messages' = <<>>
       ELSE UNCHANGED <<current_session_id, chat_messages, fresh>>

DeleteSession ==
    /\ SidebarRun
    /\ \E listed \in get_all_sessions(interactions) : \E k \in 1..Len(listed) :
          DeleteButton(listed[k].session_id)

\* lines 116-119: Clear Chat History, shown while the chat is not empty
ClearChat ==
    /\ SidebarRun
    /\ chat_messages # <<>>
    /\ chat_messages' = <<>>
    /\ UNCHANGED <<interactions, current_session_id, fresh>>

\* chat_page.py lines 103-112: thumbs up or down under a message with an id
RateMessage ==
    /\ pc = "idle"
    /\ \E i \in 1..Len(chat_messages), r \in Ratings :
          /\ "interaction_id" \in DOMAIN chat_messages[i]
          /\ interactions' =
                update_interaction_rating(interactions, chat_messages[i].interaction_id, r)
    /\ UNCHANGED <<routerVars, graderVars, turnVars>>
    /\ UNCHANGED <<has_key, chat_messages, memory, vector_store, last_id, now,
                   current_session_id, turns, uploads, issued, db_op, fresh>>

(***************************************************************************)
(* Calls on the interactions table on its own, from any session.           *)
(***************************************************************************)
Sessions == {"s1", "s2"}

\* the user_prompt of a logged row
DbPrompts == { <<"a">>, <<"A", "b">> }

\* texts find_similar_interaction is asked for
DbQueries == { <<"a">>, <<"b">>, <<" ", "a">>, <<"c">>, <<"_">> }

\* limits load_chat_history_from_db is called with
Limits == {1, DefaultLimit}

DbLog ==
    /\ last_id < MaxLogs
    /\ \E s \in Sessions, p \in DbPrompts, ts \in now..Min(now + 1, MaxClock) :
          /\ log_interaction(p, <<>>, "a", <<"Groq", DIRECT_LLM>>, <<>>, s, ts)
          /\ db_op' = [kind |-> "log", sid |-> s, id |-> last_id']
    /\ UNCHANGED <<routerVars, graderVars, turnVars>>
    /\ UNCHANGED <<has_key, chat_messages, memory, vector_store, current_session_id,
                   turns, uploads, fresh>>

DbRate ==
    /\ \E id \in 1..MaxLogs, r \in Ratings :
          /\ interactions' = update_interaction_rating(interactions, id, r)
          /\ db_op' = [kind |-> "rate", id |-> id, rating |-> r]
    /\ UNCHANGED <<routerVars, graderVars, turnVars>>
    /\ UNCHANGED <<has_key, chat_messages, memory, vector_store, last_id, now,
                   current_session_id, turns, uploads, issued, fresh>>

DbDelete ==
    /\ \E s \in Sessions :
          /\ interactions' = delete_session(interactions, s)
          /\ db_op' = [kind |-> "delete", sid |-> s]
    /\ UNCHANGED <<routerVars, graderVars, turnVars>>
    /\ UNCHANGED <<has_key, chat_messages, memory, vector_store, last_id, now,
                   current_session_id, turns, uploads, issued, fresh>>

DbRead(op) ==
    /\ db_op' = op
    /\ UNCHANGED <<routerVars, graderVars, turnVars>>
    /\ UNCHANGED <<has_key, chat_messages, memory, vector_store, interactions, last_id,
                   now, current_session_id, turns, uploads, issued, fresh>>

DbLoad ==
    \E s \in Sessions, limit \in Limits :
        \E res \in load_chat_history_from_db(interactions, s, limit) :
            DbRead([kind |-> "load", sid |-> s, limit |-> limit, result |-> res])

DbSessions ==
    \E res \in get_all_sessions(interactions) :
        DbRead([kind |-> "sessions", result |-> res])

DbFind ==
    \E q \in DbQueries :
        \E res \in find_similar_interaction(interactions, q) :
            DbRead([kind |-> "find", query |-> q, result |-> res])

(***************************************************************************)
(* Specifications.                                                         *)
(***************************************************************************)
IdleRouter ==
    /\ rpc = "idle" /\ rq = <<>> /\ rkey = FALSE /\ attempt = 0
    /\ calls = 0 /\ last_error = "" /\ decision = NoDecision
    /\ raw_strategy = "" /\ errs = <<>>

IdleGrader ==
    /\ gpc = "idle" /\ gdocs = <<>> /\ gresult = "" /\ gcalls = 0 /\ gsent = <<>>
    /\ gfailed = FALSE

IdleTurn ==
    /\ pc = "idle" /\ user_prompt = <<>> /\ agent_decision = NoDecision /\ docs = <<>> /\ grade = ""
    /\ context_text = <<>> /\ sources = <<>> /\ final_strategy = ""
    /\ response_text = NoneVal /\ st_error = <<>> /\ outcome = "none"
    /\ router_runs = 0 /\ grader_runs = 0 /\ web_runs = 0 /\ gen_runs = 0
    /\ rows_before = 0
    /\ web = NoWeb /\ store_before = <<>> /\ mem_before = <<>>

EmptyStores ==
    /\ chat_messages = <<>> /\ memory = <<>> /\ vector_store = <<>>
    /\ interactions = <<>> /\ last_id = 0 /\ now = 0
    /\ current_session_id = "s1" /\ turns = 0 /\ uploads = 0
    /\ issued = <<>> /\ db_op = NoOp /\ fresh = 0

\* the chat page of a fresh session. render_page reads the key with
\* st.session_state.get("GROQ_API_KEY") and is modelled with and without one.
Init ==
    /\ IdleRouter /\ IdleGrader /\ IdleTurn /\ EmptyStores
    /\ has_key \in BOOLEAN

Next ==
    \/ Submit
    \/ RouterStep
    \/ AfterRoute
    \/ GraderRun
    \/ AfterGrade
    \/ Decide
    \/ Generate
    \/ LogAndFinish
    \/ Upload

Spec == Init /\ [][Next]_vars

\* the router and the grader on their own, on every input within the bounds
FnInit ==
    /\ IdleTurn /\ EmptyStores
    /\ has_key = TRUE
    /\ \/ /\ IdleGrader
          /\ rpc = "start" /\ rq \in RouterQueries /\ rkey \in BOOLEAN
          /\ attempt = 0 /\ calls = 0 /\ last_error = "" /\ decision = NoDecision
          /\ raw_strategy = "" /\ errs = <<>>
       \/ /\ IdleRouter
          /\ gpc = "start" /\ gdocs \in DocSeqs(MaxDocs)
          /\ gresult = "" /\ gcalls = 0 /\ gsent = <<>> /\ gfailed = FALSE

FnNext == RouterStep \/ GraderRun

SpecFn == FnInit /\ [][FnNext]_vars

\* the interactions table on its own, called from two sessions in any order
DbInit ==
    /\ IdleRouter /\ IdleGrader /\ IdleTurn /\ EmptyStores
    /\ has_key = TRUE

DbNext == DbLog \/ DbRate \/ DbDelete \/ DbLoad \/ DbSessions \/ DbFind

SpecDb == DbInit /\ [][DbNext]_vars

\* one browser session: turns, sidebar buttons and rating buttons in any order
UiInit ==
    /\ IdleRouter /\ IdleGrader /\ IdleTurn /\ EmptyStores
    /\ has_key = TRUE

UiNext == UiTurn \/ NewChat \/ SelectSession \/ DeleteSession \/ ClearChat \/ RateMessage

SpecUi == UiInit /\ [][UiNext]_vars

(***************************************************************************)
(* Absolute http/https URLs after RFC 3986, on the alphabet in use: the    *)
(* scheme (case-insensitive), "://", a non-empty host of unreserved or     *)
(* percent-encoded characters, then path characters up to the next space.  *)
(***************************************************************************)
UrlLower(c) == IF c = "H" THEN "h" ELSE c

Unreserved == WordChars \cup {"-", ".", "~"}

IsPctAt(s, i) == At(s, i) = "%" /\ At(s, i + 1) \in HexChars /\ At(s, i + 2) \in HexChars

\* first index after "http://" or "https://" at position i, 0 when none
UrlSchemeEnd(s, i) ==
    IF ~(\A k \in 1..4 : UrlLower(At(s, i + k - 1)) = <<"h", "t", "t", "p">>[k]) THEN 0
    ELSE LET j == IF UrlLower(At(s, i + 4)) = "s" THEN i + 5 ELSE i + 4
         IN  IF LitAt(s, j, <<":", "/", "/">>) THEN j + 3 ELSE 0

RECURSIVE UrlHostEnd(_, _)
UrlHostEnd(s, i) ==
    IF At(s, i) \in Unreserved THEN UrlHostEnd(s, i + 1)
    ELSE IF IsPctAt(s, i) THEN UrlHostEnd(s, i + 3)
    ELSE i

RECURSIVE UrlTailEnd(_, _)
UrlTailEnd(s, i) ==
    IF At(s, i) \in Unreserved \cup {"/", ":"} THEN UrlTailEnd(s, i + 1)
    ELSE IF IsPctAt(s, i) THEN UrlTailEnd(s, i + 3)
    ELSE i

\* first index after the URL that starts at position i, 0 when none starts there
UrlAt(s, i) ==
    LET h == UrlSchemeEnd(s, i)
    IN  IF h = 0 THEN 0
        ELSE LET e == UrlHostEnd(s, h)
             IN  IF e = h THEN 0 ELSE UrlTailEnd(s, e)

RECURSIVE PresentUrlsFrom(_, _)
PresentUrlsFrom(s, i) ==
    IF i > Len(s) THEN <<>>
    ELSE LET e == UrlAt(s, i)
         IN  IF e > 0 THEN <<SubSeq(s, i, e - 1)>> \o PresentUrlsFrom(s, e)
             ELSE PresentUrlsFrom(s, i + 1)

\* the URLs present in a text, in order and in full
PresentUrls(s) == PresentUrlsFrom(s, 1)

ContainsUrl(s) == PresentUrls(s) # <<>>

Last(seq) == seq[Len(seq)]

(***************************************************************************)
(* Claims.                                                                 *)
(***************************************************************************)

C2_CachedQueryShortCircuits ==
    /\ pc # "idle" => \A i \in 1..Len(memory) : memory[i].query # user_prompt
    /\ (pc = "idle" /\ outcome = "memory") =>
          /\ router_runs = 0 /\ grader_runs = 0 /\ web_runs = 0 /\ gen_runs = 0
          /\ \E i \in 1..Len(memory) :
                /\ memory[i].query = user_prompt
                /\ memory[i].answer = Last(chat_messages).content

\* C3 (as stated): a query that contains an absolute http/https URL is routed
\* to Web Search with the query unchanged and without a classification call,
\* with or without an API key.
C3_UrlQueryRoutesToWebSearch ==
    ContainsUrl(rq) =>
        /\ calls = 0
        /\ rpc = "returned" =>
              /\ decision.strategy = WEB_SEARCH
              /\ decision.refined_query = rq

\* C4 (as stated): for a query that contains a well-formed absolute URL the
\* decision's URL list is non-empty and equals the URLs of the query, in order
\* and in full (scheme, host and path).
C4_UrlListMatchesQuery ==
    (rpc = "returned" /\ ContainsUrl(rq)) =>
        /\ decision.has_urls
        /\ decision.urls # <<>>
        /\ decision.urls = PresentUrls(rq)

\* C5: the strategy of every returned decision is one of the four enumerated
\* values; a strategy field of the classification service outside the
\* enumeration (any other string, or no field) is replaced by Vector-Based and
\* one inside it is kept.
C5_StrategyInEnumeration ==
    rpc = "returned" =>
        /\ decision.strategy \in RetrievalStrategy
        /\ raw_strategy # "" =>
              decision.strategy =
                  IF raw_strategy \in {DIRECT_LLM, VECTOR_BASED, HYBRID, WEB_SEARCH}
                  THEN raw_strategy ELSE VECTOR_BASED

\* the service answered with a strategy outside the enumeration
C5_Witness ==
    /\ rpc = "returned" /\ raw_strategy = "Bogus"
    /\ decision.strategy = VECTOR_BASED

\* C6: the classification service is called at most 3 times per decision, one
\* call after the other; a successful call ends the function with that call's
\* decision; after 3 failed calls the result is Direct LLM with the original
\* query and a reasoning that cites the last error.
C6_AtMostThreeCalls ==
    /\ calls <= 3
    /\ calls = attempt + (IF raw_strategy # "" THEN 1 ELSE 0)
    /\ raw_strategy # "" =>
          /\ rpc = "returned"
          /\ decision.reasoning.kind = "classifier"
          /\ decision.strategy \in RetrievalStrategy
    /\ (rpc = "returned" /\ attempt = 3) =>
          /\ raw_strategy = ""
          /\ Len(errs) = 3
          /\ decision.strategy = DIRECT_LLM
          /\ decision.refined_query = rq
          /\ decision.reasoning.kind = "Agent decision failed after attempts"
          /\ decision.reasoning.err = Last(errs)

\* three calls failed, the last one differently from the one before
C6_Witness ==
    /\ rpc = "returned" /\ calls = 3 /\ attempt = 3
    /\ errs[2] # errs[3]
    /\ decision.reasoning.err = errs[3]

\* C7: get_retriever_decision never raises; a call in which an error was raised
\* and no classification succeeded afterwards returns Direct LLM with a
\* reasoning that names the failure (the last error raised).
C7_RouterNeverRaises ==
    /\ rpc # "raised"
    /\ rpc = "loop" => attempt <= 3
    /\ (rpc = "returned" /\ errs # <<>> /\ raw_strategy = "") =>
          /\ decision.strategy = DIRECT_LLM
          /\ decision.refined_query = rq
          /\ decision.reasoning.kind \in
                {"Agent initialization failed", "Agent decision failed after attempts"}
          /\ decision.reasoning.err = Last(errs)

\* the client or the prompts failed with a parse error
C7_Witness ==
    /\ rpc = "returned" /\ errs = <<"parse error">> /\ calls = 0
    /\ decision.reasoning.kind = "Agent initialization failed"

\* the router's answer to a query without URL when no key is available
NoKeyRouted(d) == d.reasoning.kind = "No API key provided."

C9_EmptyGradesNo ==
    (gpc = "returned" /\ gdocs = <<>>) =>
        /\ gresult = "no"
        /\ gcalls = 0
        /\ gsent = <<>>
        /\ ~gfailed

\* the grader returned for the empty sequence
C9_Witness == gpc = "returned" /\ gdocs = <<>> /\ gresult = "no"

\* C10: when the grading service fails for a non-empty chunk sequence the
\* grader returns "yes", and the turn then answers from the retrieved chunks
\* without a web search.
C10_GradingFailsOpen ==
    /\ (gpc = "returned" /\ gfailed) => (gdocs # <<>> /\ gresult = "yes")
    /\ (gfailed /\ pc \in {"decide", "generate", "log", "idle"}) => grade = "yes"
    /\ (gfailed /\ pc \in {"generate", "log", "idle"}) =>
          /\ final_strategy = VECTOR_BASED
          /\ web_runs = 0
          /\ docs # <<>>
          /\ sources = docs
          /\ context_text = DocsContext(docs)
          /\ st_error = <<>>

\* the service call failed and the turn was answered from the two chunks
C10_Witness ==
    /\ pc = "idle" /\ outcome = "answered" /\ gfailed /\ gcalls = 1
    /\ Len(sources) = 2 /\ web_runs = 0

\* the context text carries the error marker of the search contract: it
\* starts with "Error"
IsErrorSentinel(ctx) == ctx # <<>> /\ ctx[1] = "Error"

\* the chunks a sequence of web results is indexed as
WebChunks(results) == [i \in 1..Len(results) |-> WebDoc(results[i])]

\* C11: when the web search returns a context text that starts with "Error",
\* the turn adds nothing to the document store, injects no web context into
\* the prompt, cites no web result, and shows the error text to the user.
C11_WebErrorSuppressesIndexing ==
    (web # NoWeb /\ IsErrorSentinel(web.ctx)) =>
        /\ st_error = web.ctx
        /\ context_text = <<>>
        /\ sources = <<>>
        /\ final_strategy = WEB_SEARCH
        /\ pc \in {"generate", "log"} => vector_store = store_before

\* the search failed in a turn that had retrieved chunks graded irrelevant
C11_Witness ==
    /\ pc = "generate" /\ web_runs = 1 /\ IsErrorSentinel(web.ctx)
    /\ docs # <<>> /\ grade = "no" /\ st_error = <<"Error", "x">>

\* C12 (as stated): when the web search succeeds (its context text does not
\* start with "Error") and returns n results, the turn cites exactly these n
\* results and submits exactly n chunks to the document store, one per result
\* in order, with metadata source = title, url, page = "Web"; also when the
\* context text holds the word "Error" after its start.
C12_WebResultsCitedAndIndexed ==
    (web # NoWeb /\ ~IsErrorSentinel(web.ctx)) =>
        /\ sources = web.results
        /\ context_text = WebContext(web.ctx)
        /\ pc \in {"generate", "log"} =>
              /\ Len(vector_store) = Len(store_before) + Len(web.results)
              /\ vector_store = store_before \o WebChunks(web.results)
              /\ \A i \in 1..Len(web.results) :
                    vector_store[Len(store_before) + i].metadata =
                        [source |-> web.results[i].title, url |-> web.results[i].url,
                         page |-> "Web"]

\* C13: within a chat turn the document store gains chunks only in the web
\* fallback: every step of a turn leaves the store unchanged, except the step
\* that runs the web search, which may only append; so a turn that ends as a
\* memory hit, a Direct LLM answer or a vector answer leaves it unchanged.
C13_StoreGainsOnlyOnWebFallback ==
    [][ (turns' # turns \/ pc # "idle") =>
           \/ vector_store' = vector_store
           \/ /\ pc = "decide" /\ grade # "yes"
              /\ final_strategy' = WEB_SEARCH /\ web_runs' = web_runs + 1
              /\ Len(vector_store') > Len(vector_store)
              /\ SubSeq(vector_store', 1, Len(vector_store)) = vector_store ]_vars

\* a vector answer was given from a store of two chunks, which it left alone
C13_Witness ==
    /\ pc = "log" /\ final_strategy = VECTOR_BASED /\ grade = "yes"
    /\ Len(sources) = 2 /\ vector_store = store_before /\ Len(vector_store) = 2

\* C14 (as stated): a turn that generated its answer and completed adds
\* exactly one entry, (query, answer), to the memory cache, at its last step;
\* a turn that ends as a memory hit adds none; so a turn that repeats a query
\* already recorded in the cache leaves the size of the cache unchanged.
C14_OneMemoryEntryPerGeneratedTurn ==
    /\ (pc = "idle" /\ outcome = "answered") =>
          memory = Append(mem_before, [query |-> user_prompt, answer |-> response_text])
    /\ (pc = "idle" /\ outcome = "memory") => memory = mem_before
    /\ pc # "idle" => memory = mem_before
    /\ (pc = "idle" /\ \E i \in 1..Len(mem_before) : mem_before[i].query = user_prompt) =>
          Len(memory) = Len(mem_before)

\* the fields of a row other than its rating
OtherFields == {"id", "session_id", "timestamp", "user_prompt", "web_context",
                "llm_response", "source", "sources"}

\* the indices of the rows with this id
RowsWithId(rows, id) == { i \in 1..Len(rows) : rows[i].id = id }

\* C15: over any sequence of log_interaction, update_interaction_rating and
\* delete_session calls from any sessions, every id returned by
\* log_interaction is strictly greater than every id returned before it, and
\* no id is used again after its row was deleted: the ids in the table are
\* distinct and each was returned exactly once.
C15_IdsStrictlyIncrease ==
    /\ \A i, j \in 1..Len(issued) : i < j => issued[i] < issued[j]
    /\ \A i, j \in 1..Len(interactions) :
          i < j => interactions[i].id < interactions[j].id
    /\ \A i \in 1..Len(interactions) :
          Cardinality({ k \in 1..Len(issued) : issued[k] = interactions[i].id }) = 1
    /\ db_op.kind = "log" =>
          /\ db_op.id = Last(issued)
          /\ Last(interactions).id = db_op.id
          /\ Last(interactions).session_id = db_op.sid

\* id 2 was returned after the row with id 1 had been deleted
C15_Witness ==
    /\ db_op = [kind |-> "log", sid |-> "s2", id |-> 2]
    /\ issued = <<1, 2>> /\ Len(interactions) = 1
    /\ interactions[1].id = 2

\* C16: update_interaction_rating(id, r) changes only the rating field of the
\* row with that id, which becomes r: every other field of that row and every
\* field of every other row are unchanged, no row is added or removed, and
\* when no row has that id the table is unchanged.
C16_RatingUpdateFrame ==
    [][ db_op'.kind = "rate" =>
           /\ Len(interactions') = Len(interactions)
           /\ \A i \in 1..Len(interactions) :
                 /\ \A f \in OtherFields : interactions'[i][f] = interactions[i][f]
                 /\ interactions'[i].rating =
                       IF interactions[i].id = db_op'.id THEN db_op'.rating
                       ELSE interactions[i].rating
           /\ RowsWithId(interactions, db_op'.id) = {} => interactions' = interactions
           /\ last_id' = last_id /\ issued' = issued ]_vars

\* the first of two rows was rated -1 and the second kept the default rating
C16_Witness ==
    /\ db_op = [kind |-> "rate", id |-> 1, rating |-> -1]
    /\ Len(interactions) = 2
    /\ interactions[1].id = 1 /\ interactions[1].rating = -1
    /\ interactions[2].id = 2 /\ interactions[2].rating = 0

\* C17 (as stated): after update_interaction_rating(id, 1) the listing of the
\* interaction's session by load_chat_history_from_db shows rating = 1 for
\* that id.
C17_ListingShowsRating ==
    (db_op.kind = "rate" /\ db_op.rating = 1) =>
        \A i \in RowsWithId(interactions, db_op.id) :
            \A res \in load_chat_history_from_db(interactions, interactions[i].session_id,
                                                  DefaultLimit) :
                \E k \in 1..Len(res) :
                    /\ res[k].role = "assistant"
                    /\ res[k].interaction_id = db_op.id
                    /\ "rating" \in DOMAIN res[k]
                    /\ res[k].rating = 1

\* C17 (amended): after update_interaction_rating(id, 1) the row with that id
\* has rating 1, and the listing of its session by load_chat_history_from_db
\* is what it was before the update: it holds the interaction's user and
\* assistant messages with the prompt, response, source, sources and id of
\* the row, and no message of it carries a rating.
C17_RatingRoundTrip ==
    [][ (db_op'.kind = "rate" /\ db_op'.rating = 1) =>
           \A i \in RowsWithId(interactions, db_op'.id) :
               LET row == interactions[i]
                   after == load_chat_history_from_db(interactions', row.session_id,
                                                      DefaultLimit)
               IN  /\ RowsWithId(interactions', db_op'.id) = {i}
                   /\ interactions'[i].rating = 1
                   /\ \A limit \in Limits :
                         load_chat_history_from_db(interactions', row.session_id, limit)
                             = load_chat_history_from_db(interactions, row.session_id, limit)
                   /\ \A res \in after :
                         /\ \E k \in 1..Len(res) \ {1} :
                               /\ res[k - 1] = [role |-> "user", content |-> row.user_prompt]
                               /\ res[k] = [role |-> "assistant", content |-> row.llm_response,
                                            source |-> row.source, sources |-> row.sources,
                                            interaction_id |-> row.id]
                         /\ \A k \in 1..Len(res) : "rating" \notin DOMAIN res[k] ]_vars

\* the second of two rows of a session was rated 1 after the first was rated -1
C17_Witness ==
    /\ db_op = [kind |-> "rate", id |-> 2, rating |-> 1]
    /\ Len(interactions) = 2
    /\ interactions[1].session_id = interactions[2].session_id
    /\ interactions[1].rating = -1
    /\ interactions[2].id = 2 /\ interactions[2].rating = 1

\* the sessions get_all_sessions may list
ListedSessions(rows) ==
    { res[k].session_id : res \in get_all_sessions(rows), k \in 1..Cardinality(SessionIds(rows)) }

\* C18: delete_session(s) removes every row whose session_id is s and no row
\* of another session; afterwards s is absent from get_all_sessions and
\* load_chat_history_from_db(s) is empty, and this stays so until
\* log_interaction appends a row for s.
C18_DeleteSessionScoped ==
    /\ [][ db_op'.kind = "delete" =>
              /\ \A i \in 1..Len(interactions') :
                    interactions'[i].session_id # db_op'.sid
              /\ \A t \in Sessions \ {db_op'.sid} :
                    RowsOfSession(interactions', t) = RowsOfSession(interactions, t)
              /\ Len(interactions') =
                    Len(interactions) - Len(RowsOfSession(interactions, db_op'.sid))
              /\ db_op'.sid \notin ListedSessions(interactions')
              /\ \A limit \in Limits :
                    load_chat_history_from_db(interactions', db_op'.sid, limit) = {<<>>}
              /\ last_id' = last_id /\ issued' = issued ]_vars
    /\ [][ interactions' # interactions =>
              \A s \in Sessions :
                  (s \notin ListedSessions(interactions) /\ s \in ListedSessions(interactions')) =>
                      /\ db_op'.kind = "log" /\ db_op'.sid = s
                      /\ load_chat_history_from_db(interactions, s, DefaultLimit) = {<<>>} ]_vars

\* session s1 was deleted and the row of session s2 stayed
C18_Witness ==
    /\ db_op = [kind |-> "delete", sid |-> "s1"]
    /\ last_id = 2 /\ Len(interactions) = 1
    /\ interactions[1].session_id = "s2"
    /\ ListedSessions(interactions) = {"s2"}

\* C19 (as stated): load_chat_history_from_db(s, limit) returns the turns of
\* session s only, oldest first in the order they were appended, the limit
\* most recent ones when the session has more; also when rows of the session
\* share a timestamp.
C19_HistoryOldestFirst ==
    db_op.kind = "load" =>
        LET mine == RowsOfSession(interactions, db_op.sid)
            n == Len(mine)
            k == Min(db_op.limit, n)
        IN  db_op.result = HistoryMessages(SubSeq(mine, n - k + 1, n))

\* q occurs in text at position i, letters compared without case
FoldedFrom(q, text, i) ==
    \A k \in 1..Len(q) : LikeFold(At(text, i + k - 1)) = LikeFold(q[k])

\* q, without the white space around it, is a substring of text
HasSubstring(text, q) ==
    LET t == Strip(q)
    IN  \E i \in 1..(Len(text) + 1) : i + Len(t) - 1 <= Len(text) /\ FoldedFrom(t, text, i)

\* C20 (as stated): find_similar_interaction(q) never returns a row whose
\* rating is below 1; when some row with rating >= 1 has q as a substring of
\* its prompt it returns such a row of highest rating, a most recent one
\* among those; otherwise it returns no match.
C20_FindSimilarBySubstring ==
    db_op.kind = "find" =>
        LET rows == interactions
            cands == { i \in 1..Len(rows) :
                         rows[i].rating >= 1 /\ HasSubstring(rows[i].user_prompt, db_op.query) }
            best == { i \in cands : \A j \in cands :
                        \/ rows[i].rating > rows[j].rating
                        \/ /\ rows[i].rating = rows[j].rating
                           /\ rows[i].timestamp >= rows[j].timestamp }
        IN  /\ db_op.result # NoMatch =>
                  \E i \in 1..Len(rows) :
                      /\ rows[i].rating >= 1
                      /\ db_op.result.past_question = rows[i].user_prompt
                      /\ db_op.result.past_answer = rows[i].llm_response
            /\ cands = {} => db_op.result = NoMatch
            /\ cands # {} =>
                  \E i \in best :
                      db_op.result = [kind |-> "match", past_question |-> rows[i].user_prompt,
                                      past_answer |-> rows[i].llm_response]

\* C21 (as stated): when log_interaction fails after the answer was generated,
\* the generated answer is still part of the displayed chat messages after the
\* turn.
C21_AnswerSurvivesLogFailure ==
    (pc = "idle" /\ outcome = "logging failed") =>
        /\ chat_messages # <<>>
        /\ Last(chat_messages).role = "assistant"
        /\ Last(chat_messages).content = response_text

PastDecision ==
    \/ pc \in {"generate", "log"}
    \/ pc = "idle" /\ outcome \in {"answered", "generation failed", "logging failed"}

\* C24: on a memory miss the web search is invoked, once, exactly when the
\* routed strategy is not Direct LLM and the grade is not "yes" (no chunk
\* retrieved, or a grader output other than "yes"); a routed Web Search, also
\* from the URL override, does not by itself cause a web search: with the
\* first chunk graded relevant the turn is answered from the vector store.
C24_WebSearchExactlyOnLowGrade ==
    /\ web_runs <= 1
    /\ pc \in {"route", "grade", "decide"} => web_runs = 0
    /\ PastDecision =>
          /\ web_runs = 1 <=> (agent_decision.strategy # DIRECT_LLM /\ grade # "yes")
          /\ (docs = <<>> /\ agent_decision.strategy # DIRECT_LLM) =>
                (grade = "no" /\ web_runs = 1)
          /\ (agent_decision.strategy = WEB_SEARCH /\ grade = "yes") =>
                /\ final_strategy = VECTOR_BASED
                /\ web_runs = 0
                /\ sources = docs /\ docs # <<>>

\* a query with a URL was answered from the uploaded chunks
C24_Witness ==
    /\ pc = "log" /\ agent_decision.has_urls /\ agent_decision.strategy = WEB_SEARCH
    /\ grade = "yes" /\ final_strategy = VECTOR_BASED /\ web_runs = 0

\* C25: the strategy label recorded for a generated answer, in the row's
\* source label and in the chat message, is Direct LLM, Vector-Based or Web
\* Search, never Hybrid; it is Direct LLM exactly when the router chose Direct
\* LLM, and then the context and the citation list are empty and no chunk was
\* retrieved, graded or searched for; it is Web Search exactly when the web
\* search was invoked, also when the search returned the error marker.
C25_RecordedStrategyLabel ==
    /\ \A i \in 1..Len(interactions) : interactions[i].source[2] \in AnswerLabels
    /\ \A i \in 1..Len(chat_messages) :
          "retrieval_strategy" \in DOMAIN chat_messages[i] =>
              chat_messages[i].retrieval_strategy \in AnswerLabels
    /\ (pc = "idle" /\ outcome = "answered") =>
          /\ Last(interactions).source = <<"Groq", final_strategy>>
          /\ Last(chat_messages).retrieval_strategy = final_strategy
    /\ PastDecision =>
          /\ final_strategy \in AnswerLabels
          /\ final_strategy = DIRECT_LLM <=> agent_decision.strategy = DIRECT_LLM
          /\ final_strategy = DIRECT_LLM =>
                /\ context_text = <<>> /\ sources = <<>> /\ docs = <<>>
                /\ grader_runs = 0 /\ web_runs = 0
          /\ final_strategy = WEB_SEARCH <=> web_runs = 1

\* the router chose Hybrid, the web search failed, the answer was recorded as
\* Web Search
C25_Witness ==
    /\ pc = "idle" /\ outcome = "answered"
    /\ agent_decision.strategy = HYBRID /\ IsErrorSentinel(web.ctx)
    /\ Last(interactions).source = <<"Groq", WEB_SEARCH>>

\* the positions of the rows of session s
PositionsOf(rows, s) == { i \in 1..Len(rows) : rows[i].session_id = s }

IdsOnDisplayExist ==
    \A i \in 1..Len(chat_messages) :
        "interaction_id" \in DOMAIN chat_messages[i] =>
            \E k \in 1..Len(interactions) :
                /\ interactions[k].id = chat_messages[i].interaction_id
                /\ interactions[k].session_id = current_session_id

\* a step that deletes the rows of session s
Deletes(s) ==
    /\ RowsOfSession(interactions, s) # <<>>
    /\ interactions' = delete_session(interactions, s)

\* the session ids in use: in the table or on display
KnownSessions == SessionIds(interactions) \cup {current_session_id}

\* C26: after any sequence of turns, New Chat, session selection, session
\* deletion, Clear Chat History and ratings, every interaction_id carried by an
\* assistant message of chat_messages is the id of an existing row whose
\* session_id is the current session id; deleting the current session sets the
\* current session id to one no session has and empties the chat, deleting
\* another session leaves both unchanged.
C26_DisplayedIdsBelongToCurrentSession ==
    /\ []IdsOnDisplayExist
    /\ [][\A s \in SessionIds(interactions) : Deletes(s) =>
            IF s = current_session_id
            THEN /\ current_session_id' \notin KnownSessions
                 /\ chat_messages' = <<>>
            ELSE /\ current_session_id' = current_session_id
                 /\ chat_messages' = chat_messages]_vars

\* the session of the first answer was deleted; the session on display is a
\* new one and its chat shows the second answer with the id of the only row
\* left
C26_Witness ==
    /\ Len(interactions) = 1 /\ last_id = 2
    /\ interactions[1].session_id = current_session_id
    /\ current_session_id = "n1"
    /\ Len(chat_messages) = 2
    /\ chat_messages[2].interaction_id = interactions[1].id

=============================================================================
